---- MODULE Spec2Model ----
(***************************************************************************)
(* PC-Alerts: the ESPN league activity listener (listener.py) and the card *)
(* renderer (image_constructors/add_or_drop.py).                           *)
(*                                                                         *)
(* Python strings are modelled as sequences of one-character strings, so   *)
(* that upper-casing, substring tests, f-string concatenation and sorting  *)
(* are computed the way the code computes them.                            *)
(***************************************************************************)
EXTENDS Integers, Sequences, FiniteSets, TLC

VARIABLES
    spc,              \* position of on_startup (listener.py:341-404)
    lpc,              \* position of the loop() task (listener.py:352-402)
    seen_keys,        \* listener.py:83, the in-memory ledger
    disk,             \* content of SEEN_STATE_FILE (listener.py:62)
    new_items,        \* new_items of the running loop cycle (listener.py:357)
    idx,              \* position of `for item in new_items` (listener.py:361)
    last_new_events,  \* listener.py:84
    latest,           \* content of LATEST_CARD_PATH / OUTPUT_PATH (out_add.png)
    cards,            \* files under CARDS_DIR: card_id -> content
    env,              \* PUBLIC_BASE_URL / PUSHCUT_URL as read at import time
    reported,         \* history: key -> times poll_once put it in new_items
    rendered,         \* history: key -> calls of construct_image_adds_or_drops
    delivered,        \* history: key -> requests.post calls of send_to_pushcut
    attempted,        \* history: keys whose loop body started in this cycle
    outcome,          \* history: how the last loop cycle ended
    saved,            \* history: what the last poll_once did with the ledger file
    added,            \* history: the keys the last poll_once added to seen_keys
    skipped,          \* history: keys poll_once met when already in seen_keys
    replay,           \* the replay scenario: its window, cycles and new keys
    failed,           \* history: keys whose post to Pushcut failed
    warm,             \* history: the keys of the warm-up window, and those met again
    errored,          \* history: keys whose processing raised, and those met again
    calc,             \* a call of a pure function: its arguments and result
    response          \* what the last request to a /cards route was answered

hist == <<reported, rendered, delivered, attempted, outcome, saved, added,
          skipped, replay, failed, warm, errored>>

\* what the startup and the loop task never touch
side == <<calc, response>>

\* the state of the startup, of the loop task and of their files
prog == <<spc, lpc, seen_keys, disk, new_items, idx, last_new_events, latest,
          cards, env, hist>>

vars == <<prog, side>>

\* Python's None: no string of the model equals it (a string's elements are
\* single characters).
None == <<"None#">>

(***************************************************************************)
(* Bounds of the model.                                                    *)
(***************************************************************************)
MaxWindow == 2     \* activities in one window of league.recent_activity
MaxEntries == 2    \* entries of one activity given to normalize_actions
MaxSize == 11      \* largest font size a search starts from
MaxWidth == 2      \* largest measured width, and widest region
MaxCoord == 6      \* largest coordinate and text width, in 1/Scale pixel

(***************************************************************************)
(* Strings.                                                                *)
(***************************************************************************)
LowerCase == <<"a","b","c","d","e","f","g","h","i","j","k","l","m",
               "n","o","p","q","r","s","t","u","v","w","x","y","z">>
UpperCase == <<"A","B","C","D","E","F","G","H","I","J","K","L","M",
               "N","O","P","Q","R","S","T","U","V","W","X","Y","Z">>
Digits == <<"0","1","2","3","4","5","6","7","8","9">>

Index(q, c) == CHOOSE i \in 1..Len(q) : q[i] = c
In(q, c) == \E i \in 1..Len(q) : q[i] = c

\* ord(c) for the characters dedup keys are made of
Code(c) ==
    IF In(LowerCase, c) THEN 96 + Index(LowerCase, c)
    ELSE IF In(UpperCase, c) THEN 64 + Index(UpperCase, c)
    ELSE IF In(Digits, c) THEN 47 + Index(Digits, c)
    ELSE IF c = " " THEN 32
    ELSE IF c = "-" THEN 45
    ELSE 124    \* "|"

\* str.upper() on one character
UpperChar(c) == IF In(LowerCase, c) THEN UpperCase[Index(LowerCase, c)] ELSE c

Upper(s) == [i \in 1..Len(s) |-> UpperChar(s[i])]

\* str.strip(): drop leading and trailing whitespace
RECURSIVE LStrip(_)
LStrip(s) == IF s # <<>> /\ Head(s) = " " THEN LStrip(Tail(s)) ELSE s

RECURSIVE RStrip(_)
RStrip(s) ==
    IF s # <<>> /\ s[Len(s)] = " " THEN RStrip(SubSeq(s, 1, Len(s) - 1)) ELSE s

Strip(s) == RStrip(LStrip(s))

\* the test (sub in s) on strings
Contains(s, sub) ==
    \E i \in 1..(Len(s) - Len(sub) + 1) : SubSeq(s, i, i + Len(sub) - 1) = sub

\* str(n) for an int n >= 0
RECURSIVE NatToStr(_)
NatToStr(n) ==
    IF n < 10 THEN <<Digits[n + 1]>>
    ELSE NatToStr(n \div 10) \o <<Digits[(n % 10) + 1]>>

\* str(n) for an int n
IntToStr(n) == IF n < 0 THEN <<"-">> \o NatToStr(-n) ELSE NatToStr(n)

\* An Optional[int]: None, or an int.
NoInt == [some |-> FALSE, v |-> 0]
SomeInt(n) == [some |-> TRUE, v |-> n]

\* f"{v}" for an Optional[int] and for an Optional[str]
FmtOptInt(o) == IF o.some THEN IntToStr(o.v) ELSE <<"N","o","n","e">>
FmtOptStr(v) == IF v = None THEN <<"N","o","n","e">> ELSE v

\* s < t in Python's string order (code points, then length)
RECURSIVE StrLess(_, _)
StrLess(s, t) ==
    IF t = <<>> THEN FALSE
    ELSE IF s = <<>> THEN TRUE
    ELSE IF Head(s) = Head(t) THEN StrLess(Tail(s), Tail(t))
    ELSE Code(Head(s)) < Code(Head(t))

\* sorted(S) for a set of strings
RECURSIVE Sorted(_)
Sorted(S) ==
    IF S = {} THEN <<>>
    ELSE LET m == CHOOSE x \in S : \A y \in S \ {x} : StrLess(x, y)
         IN  <<m>> \o Sorted(S \ {m})

\* list.sort() for a list of strings (duplicates kept)
RECURSIVE InsertSorted(_, _)
InsertSorted(x, q) ==
    IF q = <<>> THEN <<x>>
    ELSE IF StrLess(x, Head(q)) THEN <<x>> \o q
    ELSE <<Head(q)>> \o InsertSorted(x, Tail(q))

RECURSIVE SortList(_)
SortList(q) == IF q = <<>> THEN <<>> ELSE InsertSorted(Head(q), SortList(Tail(q)))

\* sep.join(parts)
RECURSIVE Join(_, _)
Join(sep, parts) ==
    IF parts = <<>> THEN <<>>
    ELSE IF Len(parts) = 1 THEN parts[1]
    ELSE parts[1] \o sep \o Join(sep, Tail(parts))

Range(q) == {q[i] : i \in 1..Len(q)}

\* A Counter-like history: key -> number of times.
Count(b, k) == IF k \in DOMAIN b THEN b[k] ELSE 0
Incr(b, k) == [x \in DOMAIN b \cup {k} |-> IF x = k THEN Count(b, k) + 1 ELSE b[x]]
NoCounts == [x \in {} |-> 0]

(***************************************************************************)
(* The feed: what league.recent_activity can return.  A team and a player  *)
(* are espn_api objects, an entry of activity.actions is a tuple           *)
(* (team, action, player), possibly shorter.                               *)
(***************************************************************************)
TeamMoja ==
    [team_name |-> <<"m","o">>, team_id |-> 1,
     owners |-> <<[id |-> <<"o","1">>]>>,
     logo_url |-> <<"h","t","t","p",":","l">>]

\* a team without a name, an owner or a logo
TeamTwo ==
    [team_name |-> None, team_id |-> 2, owners |-> <<>>, logo_url |-> None]

Bucky == [name |-> <<"B","u">>, playerId |-> SomeInt(7)]
Jets == [name |-> <<"J","e","t","s">>, playerId |-> NoInt]

E_Add == <<TeamMoja, <<"F","A"," ","A","D","D","E","D">>, Bucky>>
E_Drop == <<TeamMoja, <<"D","R","O","P","P","E","D">>, Bucky>>
E_AddDst == <<TeamTwo, <<" ","w","a","i","v","e","r"," ","a","d","d","e","d"," ">>, Jets>>
E_Trade == <<TeamMoja, <<"T","R","A","D","E","D">>, Bucky>>
E_RawAdd == <<TeamMoja, <<"A","D","D">>, Bucky>>
E_Short == <<TeamMoja, <<"D","R","O","P","P","E","D">>>>

Activities ==
    { [actions |-> <<E_Add>>],
      [actions |-> <<E_Drop, E_AddDst>>],
      [actions |-> <<E_Trade, E_Short, E_RawAdd>>] }

\* The windows league.recent_activity(size=50) may return: any list of at
\* most MaxWindow activities, repetitions included.
RECURSIVE ListsUpTo(_, _)
ListsUpTo(S, n) ==
    IF n = 0 THEN {<<>>}
    ELSE LET shorter == ListsUpTo(S, n - 1)
         IN  shorter \cup {Append(q, x) : q \in {w \in shorter : Len(w) = n - 1}, x \in S}

Windows == ListsUpTo(Activities, MaxWindow)

(***************************************************************************)
(* Event Normalizer (listener.py:151-264).                                 *)
(***************************************************************************)
ADDED == <<"A","D","D","E","D">>
DROPPED == <<"D","R","O","P","P","E","D">>
TRADED == <<"T","R","A","D","E","D">>

ONLY_ACTIONS == {ADDED, DROPPED}

normalize_action(action_raw) ==
    LET a == Upper(Strip(action_raw))
    IN  IF Contains(a, ADDED) THEN ADDED
        ELSE IF Contains(a, DROPPED) THEN DROPPED
        ELSE IF Contains(a, TRADED) THEN TRADED
        ELSE a

get_team_name(team_obj) ==
    IF team_obj.team_name # None /\ team_obj.team_name # <<>>
    THEN team_obj.team_name
    ELSE <<"T","e","a","m"," ">> \o IntToStr(team_obj.team_id)

StartsWith(s, prefix) ==
    Len(s) >= Len(prefix) /\ SubSeq(s, 1, Len(prefix)) = prefix

get_team_logo_url(team_obj) ==
    IF team_obj.logo_url # None /\ StartsWith(team_obj.logo_url, <<"h","t","t","p">>)
    THEN team_obj.logo_url
    ELSE None

get_owner_id(team_obj) ==
    IF team_obj.owners # <<>> THEN team_obj.owners[1].id ELSE None

player_headshot_url(player_id) ==
    IF ~player_id.some \/ player_id.v <= 0 THEN None
    ELSE <<"h","t","t","p",":","/">> \o IntToStr(player_id.v) \o <<".","p","n","g">>

Transaction(entry) ==
    [teamName |-> get_team_name(entry[1]),
     ownerId |-> get_owner_id(entry[1]),
     action |-> normalize_action(entry[2]),
     playerName |-> entry[3].name,
     playerId |-> entry[3].playerId,
     teamLogoUrl |-> get_team_logo_url(entry[1]),
     playerImageUrl |-> player_headshot_url(entry[3].playerId)]

\* the output built back to front
RECURSIVE NormalizeEntriesReversed(_)
NormalizeEntriesReversed(entries) ==
    IF entries = <<>> THEN <<>>
    ELSE LET entry == Head(entries)
             rest == NormalizeEntriesReversed(Tail(entries))
         IN  IF Len(entry) < 3 THEN rest
             ELSE IF normalize_action(entry[2]) \notin ONLY_ACTIONS THEN rest
             ELSE rest \o <<Transaction(entry)>>

RECURSIVE NormalizeEntries(_)
NormalizeEntries(entries) ==
    IF entries = <<>> THEN <<>>
    ELSE LET entry == Head(entries)
             rest == NormalizeEntries(Tail(entries))
         IN  IF Len(entry) < 3 THEN rest
             ELSE IF normalize_action(entry[2]) \notin ONLY_ACTIONS THEN rest
             ELSE <<Transaction(entry)>> \o rest

normalize_actions(activity) == NormalizeEntries(activity.actions)

(***************************************************************************)
(* Dedup key (listener.py:269-274).                                        *)
(***************************************************************************)
KeyPart(a) ==
    a.teamName \o <<"|">> \o a.action \o <<"|">> \o a.playerName \o <<"|">>
        \o FmtOptInt(a.playerId)

make_event_key(actions) ==
    Join(<<" ","|","|"," ">>,
         SortList([i \in 1..Len(actions) |-> KeyPart(actions[i])]))

(***************************************************************************)
(* Ledger persistence (listener.py:106-129).  The ledger file is missing,  *)
(* unreadable, not JSON, JSON that is not an object, an object without     *)
(* "seen_keys", an object whose "seen_keys" is not a list, or an object    *)
(* with a list of keys.                                                    *)
(***************************************************************************)
File(kind, keys) == [kind |-> kind, keys |-> keys]

NoListKinds == {"missing", "unreadable", "badjson", "nondict", "nolist"}

\* the body of the try block, listener.py:111-115
LoadBody(d, seen) ==
    IF d.kind \in {"unreadable", "badjson", "nondict"}
    THEN [exc |-> TRUE, seen |-> seen]
    ELSE IF d.kind = "nolist" THEN [exc |-> FALSE, seen |-> seen]
    ELSE [exc |-> FALSE, seen |-> Range(d.keys)]   \* "nokey": keys = []

\* load_seen_state without its try/except
load_seen_state_uncaught(d, seen) ==
    IF d.kind = "missing" THEN [raised |-> FALSE, seen |-> seen]
    ELSE LET r == LoadBody(d, seen)
         IN  [raised |-> r.exc, seen |-> r.seen]

load_seen_state(d, seen) ==
    IF d.kind = "missing" THEN [raised |-> FALSE, seen |-> seen]
    ELSE LET r == LoadBody(d, seen)
         IN  [raised |-> FALSE, seen |-> r.seen]   \* except Exception: pass

\* a dump that loses the last key of the sorted list
LedgerDumpDropsLast(seen) ==
    File("list", SubSeq(Sorted(seen), 1, Cardinality(seen) - 1))

\* json.dump({"seen_keys": sorted(seen_keys), ...})
LedgerDump(seen) == File("list", Sorted(seen))

\* save_seen_state: the write succeeds, or open() fails and the file is as
\* it was, or the write fails after open() truncated the file; an error is
\* swallowed either way.
save_seen_state(seen, d) ==
    { [ok |-> TRUE, disk |-> LedgerDump(seen)],
      [ok |-> FALSE, disk |-> d],
      [ok |-> FALSE, disk |-> File("badjson", <<>>)] }

(***************************************************************************)
(* poll_once (listener.py:314-337), without its calls of the feed and of   *)
(* save_seen_state: the dedup pass over the activities of one window.      *)
(***************************************************************************)
\* the membership test left out
KeySeenNever(key, seen) == FALSE

KeySeen(key, seen) == key \in seen                  \* listener.py:328

\* the set replaced instead of extended
AddKeyReplaces(seen, key) == {key}

\* the key not recorded
AddKeyForgets(seen, key) == seen

AddKey(seen, key) == seen \cup {key}                \* listener.py:331

\* listener.py:320-327: the transactions of a window in the order poll_once
\* meets them, each with its key
RECURSIVE KeyedActions(_)
KeyedActions(actions) ==
    IF actions = <<>> THEN <<>>
    ELSE <<[key |-> make_event_key(<<Head(actions)>>), actions |-> <<Head(actions)>>]>>
         \o KeyedActions(Tail(actions))

RECURSIVE KeyedActivities(_)
KeyedActivities(activities) ==
    IF activities = <<>> THEN <<>>
    ELSE KeyedActions(normalize_actions(Head(activities)))
         \o KeyedActivities(Tail(activities))

\* listener.py:328-332 over those transactions
RECURSIVE DedupItems(_, _)
DedupItems(items, acc) ==
    IF items = <<>> THEN acc
    ELSE LET item == Head(items)
         IN  IF KeySeen(item.key, acc.seen)
             THEN DedupItems(Tail(items),
                             [acc EXCEPT !.skipped = @ \cup {item.key}])
             ELSE DedupItems(Tail(items),
                             [seen |-> AddKey(acc.seen, item.key),
                              new_items |-> Append(acc.new_items, item),
                              skipped |-> acc.skipped])

\* the new transactions found but their keys left out of the seen-set
DedupUnmarked(items, seen) ==
    [DedupItems(items, [seen |-> seen, new_items |-> <<>>, skipped |-> {}])
        EXCEPT !.seen = seen]

Dedup(items, seen) ==
    DedupItems(items, [seen |-> seen, new_items |-> <<>>, skipped |-> {}])

ItemKeys(items) == {items[i].key : i \in 1..Len(items)}

RECURSIVE CountItems(_, _)
CountItems(items, counts) ==
    IF items = <<>> THEN counts
    ELSE CountItems(Tail(items), Incr(counts, Head(items).key))

\* What the feed may hold when poll_once calls it: the keyed transactions
\* of each window.
Feed == {KeyedActivities(w) : w \in Windows}

\* What one call of poll_once can do when the feed holds one of `feed`: the
\* feed call raises and nothing changes, or the window is deduplicated and,
\* if anything is new, the ledger is saved.
poll_once(seen, d, feed) ==
    { [raised |-> TRUE, seen |-> seen, disk |-> d,
       new_items |-> <<>>, skipped |-> {}, saved |-> "none"] }
    \cup
    UNION { LET r == Dedup(c, seen)
            IN  IF r.new_items # <<>>
                THEN { [raised |-> FALSE, seen |-> r.seen,
                        disk |-> sv.disk, new_items |-> r.new_items,
                        skipped |-> r.skipped,
                        saved |-> IF sv.ok THEN "ok" ELSE "failed"]
                       : sv \in save_seen_state(r.seen, d) }
                ELSE { [raised |-> FALSE, seen |-> r.seen,
                        disk |-> d, new_items |-> <<>>, skipped |-> r.skipped,
                        saved |-> "none"] }
          : c \in feed }

(***************************************************************************)
(* Card files and the Card Compositor (add_or_drop.py:127-225).  An image  *)
(* is what it shows; a file is absent, whole, or torn by a failed write.   *)
(***************************************************************************)
NoImage == [player |-> None, owner |-> None, verb |-> None]
Absent == [exists |-> FALSE, torn |-> FALSE, img |-> NoImage]
Whole(img) == [exists |-> TRUE, torn |-> FALSE, img |-> img]
Torn == [exists |-> TRUE, torn |-> TRUE, img |-> NoImage]

\* out_add.png as an earlier run of the renderer left it
StaleCard == Whole([player |-> <<"o","l","d">>, owner |-> <<"m","o">>,
                    verb |-> <<" ","A","D","D","S">>])

\* owner_id_to_name (listener.py:76, 410-414)
owner_id_to_name == [o \in {<<"o","1">>} |-> <<"m","o","j","a">>]

Falsy(v) == v = None \/ v = <<>>

\* the output file opened for writing before the statement that raises
RaisesAfterOpen(cause) ==
    [raised |-> TRUE, cause |-> cause, img |-> NoImage, wrote |-> "torn"]

\* an exception raised by a statement above base.save (add_or_drop.py:222):
\* nothing has been written
Raises(cause) ==
    [raised |-> TRUE, cause |-> cause, img |-> NoImage, wrote |-> "nothing"]

\* what can fail to load between add_or_drop.py:162 and 221: the template,
\* the player's image (fetch_image), the owner's image, a font (load_font)
LoadFailures == {"template", "player_image", "owner_image", "font"}

\* The results of construct_image_adds_or_drops: it raises, or it returns
\* the image it wrote to OUTPUT_PATH.  `wrote` is what the call did to that
\* file: nothing, a whole image, or a part of one when base.save fails
\* after it opened the file.  The print that follows base.save can raise
\* too, with the file already written.
construct_image_adds_or_drops(player_name, player_img_url, owner_nickname, transaction_type) ==
    LET t == Upper(Strip(transaction_type))
        verb == IF t \in {<<"A","D","D">>, ADDED} THEN <<" ","A","D","D","S">>
                ELSE IF t \in {<<"D","R","O","P">>, DROPPED}
                     THEN <<" ","D","R","O","P","S">>
                     ELSE None
        img == [player |-> player_name, owner |-> owner_nickname, verb |-> verb]
    IN  IF Falsy(player_name) \/ Falsy(owner_nickname) \/ Falsy(transaction_type)
        THEN {Raises("arguments")}
        ELSE IF Falsy(player_img_url) THEN {Raises("arguments")}
        ELSE IF verb = None THEN {Raises("kind")}
        ELSE {Raises(c) : c \in LoadFailures}
             \cup
             { [raised |-> TRUE, cause |-> "save", img |-> NoImage, wrote |-> "nothing"],
               [raised |-> TRUE, cause |-> "save", img |-> NoImage, wrote |-> "torn"],
               [raised |-> TRUE, cause |-> "print", img |-> img, wrote |-> "whole"],
               [raised |-> FALSE, cause |-> "none", img |-> img, wrote |-> "whole"] }

\* the file at OUTPUT_PATH after a call with result r, lat being the file
\* before it
Written(r, lat) ==
    CASE r.wrote = "nothing" -> lat
      [] r.wrote = "torn" -> Torn
      [] r.wrote = "whole" -> Whole(r.img)

\* hashlib.sha1(key).hexdigest()[:12], taken to be free of collisions
CardId(key) == <<"#">> \o key

\* listener.py:377
IsAddOrDrop(transaction) ==
    transaction.action = <<"A","D","D">> \/ transaction.action = <<"D","R","O","P">>

\* shutil.copyfile(LATEST_CARD_PATH, card_path), listener.py:372-373
CopyLatest(lat, files, card_id) ==
    IF ~lat.exists THEN {[raised |-> FALSE, cards |-> files]}
    ELSE { [raised |-> FALSE, cards |-> (card_id :> lat) @@ files],
           [raised |-> TRUE, cards |-> files],
           [raised |-> TRUE, cards |-> (card_id :> Torn) @@ files] }

\* listener.py:375-379
Render(transaction, lat) ==
    IF ~IsAddOrDrop(transaction) THEN {[raised |-> FALSE, called |-> FALSE, latest |-> lat]}
    ELSE IF transaction.ownerId \notin DOMAIN owner_id_to_name
    THEN {[raised |-> TRUE, called |-> FALSE, latest |-> lat]}       \* KeyError
    ELSE { [raised |-> r.raised, called |-> TRUE,
            latest |-> Written(r, lat)]
           : r \in construct_image_adds_or_drops(
                       transaction.playerName, transaction.playerImageUrl,
                       owner_id_to_name[transaction.ownerId], transaction.action) }

\* listener.py:381-397 with send_to_pushcut (287-309): whether requests.post
\* is called for the item
Posts(e) == e.PUBLIC_BASE_URL /\ e.PUSHCUT_URL

\* format_add_message (listener.py:277-282); the two emoji are written as the
\* one-element strings "HEAVY PLUS SIGN" and "WHITE HEAVY CHECK MARK"
RECURSIVE AddedLines(_)
AddedLines(actions) ==
    IF actions = <<>> THEN <<>>
    ELSE << <<"WHITE HEAVY CHECK MARK", " ">> \o Head(actions).teamName
            \o <<" ","a","d","d","e","d",":"," ">> \o Head(actions).playerName >>
         \o AddedLines(Tail(actions))

format_add_message(actions) ==
    Join(<<"\n">>, << <<"HEAVY PLUS SIGN", " ", "A", "D", "D">> >> \o AddedLines(actions))

\* input_obj (listener.py:385-395) for an item; imageUrl is given as the
\* id of the card it names
input_obj(item) ==
    LET transaction == item.actions[1]
    IN  [type |-> <<"A","D","D">>,
         text |-> format_add_message(item.actions),
         teamName |-> transaction.teamName,
         teamLogoUrl |-> transaction.teamLogoUrl,
         playerName |-> transaction.playerName,
         playerId |-> transaction.playerId,
         playerImageUrl |-> transaction.playerImageUrl,
         imageUrl |-> CardId(item.key),
         rawActions |-> item.actions]

\* send_to_pushcut with its try/except left out: a transport error of
\* requests.post reaches the caller
send_to_pushcut_uncaught(e) ==
    IF ~e.PUSHCUT_URL THEN {[raised |-> FALSE, posted |-> FALSE, failed |-> FALSE]}
    ELSE { [raised |-> FALSE, posted |-> TRUE, failed |-> FALSE],
           [raised |-> FALSE, posted |-> TRUE, failed |-> TRUE],
           [raised |-> TRUE, posted |-> TRUE, failed |-> TRUE] }

\* send_to_pushcut (listener.py:287-309): no URL and nothing is posted; else
\* the post is answered below 400, or answered 400 or above (printed), or
\* requests.post raises (caught and printed).
send_to_pushcut(e) ==
    IF ~e.PUSHCUT_URL THEN {[raised |-> FALSE, posted |-> FALSE, failed |-> FALSE]}
    ELSE { [raised |-> FALSE, posted |-> TRUE, failed |-> FALSE],
           [raised |-> FALSE, posted |-> TRUE, failed |-> TRUE],      \* HTTP >= 400
           [raised |-> FALSE, posted |-> TRUE, failed |-> TRUE] }     \* transport

\* listener.py:381-397
Deliver(e) ==
    IF e.PUBLIC_BASE_URL THEN send_to_pushcut(e)
    ELSE {[raised |-> FALSE, posted |-> FALSE, failed |-> FALSE]}

\* The body of `for item in new_items` (listener.py:362-397): every way it
\* can run for one item.
ProcessOne(item, lat, files, e) ==
    UNION { IF c.raised
            THEN {[raised |-> TRUE, cards |-> c.cards, latest |-> lat,
                   called |-> FALSE, posted |-> FALSE, failed |-> FALSE]}
            ELSE UNION { IF r.raised
                         THEN {[raised |-> TRUE, cards |-> c.cards,
                                latest |-> r.latest, called |-> r.called,
                                posted |-> FALSE, failed |-> FALSE]}
                         ELSE { [raised |-> d.raised, cards |-> c.cards,
                                 latest |-> r.latest, called |-> r.called,
                                 posted |-> d.posted, failed |-> d.failed]
                                : d \in Deliver(e) }
                       : r \in Render(item.actions[1], lat) }
          : c \in CopyLatest(lat, files, CardId(item.key)) }

(***************************************************************************)
(* The process: on_startup (listener.py:340-404) and the task it creates.  *)
(***************************************************************************)
KeyAdd == make_event_key(<<Transaction(E_Add)>>)

\* What the ledger file may hold when the process starts.
InitialDisks ==
    { File("missing", <<>>), File("unreadable", <<>>), File("badjson", <<>>),
      File("nondict", <<>>), File("nokey", <<>>), File("nolist", <<>>),
      File("list", <<>>), File("list", <<KeyAdd>>) }

Environments == [PUBLIC_BASE_URL : BOOLEAN, PUSHCUT_URL : BOOLEAN]

\* no pure function called yet, no request answered yet
NoCall == [fn |-> "none"]
NoResponse == [name |-> <<>>, route |-> "none", status |-> 0, file |-> Absent]

\* the process as it starts
Start ==
    /\ spc = "load"
    /\ lpc = "none"
    /\ seen_keys = {}
    /\ disk \in InitialDisks
    /\ new_items = <<>>
    /\ idx = 1
    /\ last_new_events = <<>>
    /\ latest \in {Absent, StaleCard}
    /\ cards = <<>>
    /\ env \in Environments
    /\ reported = NoCounts
    /\ rendered = NoCounts
    /\ delivered = NoCounts
    /\ attempted = {}
    /\ outcome = "none"
    /\ saved = "none"
    /\ added = {}
    /\ skipped = {}
    /\ replay = [cycles |-> 0, w |-> <<>>, new |-> {}, clean |-> TRUE]
    /\ failed = {}
    /\ warm = [keys |-> {}, again |-> {}]
    /\ errored = [keys |-> {}, again |-> {}]

Init ==
    /\ Start
    /\ calc = NoCall
    /\ response = NoResponse

\* listener.py:344
LoadSeenState ==
    /\ spc = "load"
    /\ LET r == load_seen_state(disk, seen_keys)
       IN  /\ seen_keys' = r.seen
           /\ spc' = IF r.raised THEN "crashed" ELSE "init"
    /\ UNCHANGED <<lpc, disk, new_items, idx, last_new_events, latest, cards,
                   env, hist, side>>

\* listener.py:345: init_league raises when the ESPN cookies are not set
InitLeague ==
    /\ spc = "init"
    /\ \E cookies \in BOOLEAN : spc' = IF cookies THEN "warmup" ELSE "crashed"
    /\ UNCHANGED <<lpc, seen_keys, disk, new_items, idx, last_new_events,
                   latest, cards, env, hist, side>>

\* listener.py:348: _ = poll_once(size=50), its result dropped; an error
\* ends the startup.  `log` says whether the history of the window's keys is
\* kept.
WarmupStep(log) ==
    /\ spc = "warmup"
    /\ \E r \in poll_once(seen_keys, disk, Feed) :
          /\ spc' = IF r.raised THEN "crashed" ELSE "reset"
          /\ seen_keys' = r.seen
          /\ disk' = r.disk
          /\ saved' = r.saved
          /\ reported' = CountItems(r.new_items, reported)
          /\ added' = r.seen \ seen_keys
          /\ skipped' = skipped \cup r.skipped
          /\ warm' = IF log
                     THEN [warm EXCEPT !.keys = ItemKeys(r.new_items) \cup r.skipped]
                     ELSE warm
    /\ UNCHANGED <<lpc, new_items, idx, last_new_events, latest, cards, env,
                   rendered, delivered, attempted, outcome, replay, failed,
                   errored, side>>

WarmupPoll == WarmupStep(FALSE)

\* the same step with the history of the window's keys kept
WarmupPollLogged == WarmupStep(TRUE)

\* the task created before the warm-up poll and run beside it
TaskCreatedEarly == spc \in {"warmup", "reset", "done"}

\* whether the loop task exists: asyncio.create_task is the last statement
\* of on_startup, listener.py:404
TaskCreated == spc = "done"

\* listener.py:349-404: the rest of on_startup
StartLoop ==
    /\ spc = "reset"
    /\ spc' = "done"
    /\ last_new_events' = <<>>
    /\ UNCHANGED <<lpc, seen_keys, disk, new_items, idx, latest, cards, env,
                   hist, side>>

\* the task's first step: it enters `while True`, listener.py:354
LoopBegin ==
    /\ TaskCreated
    /\ lpc = "none"
    /\ lpc' = "Polling"
    /\ UNCHANGED <<spc, seen_keys, disk, new_items, idx, last_new_events,
                   latest, cards, env, hist, side>>

\* the exception not caught: the task ends
OnCycleErrorStops == "Stopped"

\* except Exception (listener.py:399-400): where the loop goes when a cycle
\* raises
OnCycleError == "Idle"

\* listener.py:356-359, r being what poll_once did
PollStep(r) ==
    /\ seen_keys' = r.seen
    /\ disk' = r.disk
    /\ saved' = r.saved
    /\ reported' = CountItems(r.new_items, reported)
    /\ added' = r.seen \ seen_keys
    /\ skipped' = skipped \cup r.skipped
    /\ new_items' = r.new_items
    /\ last_new_events' = IF r.new_items # <<>> THEN r.new_items ELSE last_new_events
    /\ lpc' = IF r.raised THEN OnCycleError ELSE "Processing"
    /\ outcome' = IF r.raised THEN "error" ELSE "none"
    /\ idx' = 1
    /\ attempted' = {}
    /\ UNCHANGED <<spc, latest, cards, env, rendered, delivered, failed, side>>

LoopPoll ==
    /\ TaskCreated
    /\ lpc = "Polling"
    /\ \E r \in poll_once(seen_keys, disk, Feed) : PollStep(r)
    /\ UNCHANGED <<replay, warm, errored>>

\* the same step with the history kept of the keys it met again: those of
\* the warm-up window and those whose processing raised
LoopPollLogged ==
    /\ TaskCreated
    /\ lpc = "Polling"
    /\ \E r \in poll_once(seen_keys, disk, Feed) :
          /\ PollStep(r)
          /\ warm' = [warm EXCEPT !.again = @ \cup (r.skipped \cap warm.keys)]
          /\ errored' =
                [errored EXCEPT !.again = @ \cup (r.skipped \cap errored.keys)]
    /\ UNCHANGED replay

\* listener.py:361-397: one iteration of `for item in new_items`; `log` says
\* whether the history of failed posts and of raised errors is kept
ProcessStep(log) ==
    /\ TaskCreated
    /\ lpc = "Processing"
    /\ idx <= Len(new_items)
    /\ LET item == new_items[idx]
       IN  \E r \in ProcessOne(item, latest, cards, env) :
              /\ cards' = r.cards
              /\ latest' = r.latest
              /\ rendered' = IF r.called THEN Incr(rendered, item.key) ELSE rendered
              /\ delivered' = IF r.posted THEN Incr(delivered, item.key) ELSE delivered
              /\ failed' = IF log /\ r.failed THEN failed \cup {item.key} ELSE failed
              /\ errored' = IF log /\ r.raised
                            THEN [errored EXCEPT !.keys = @ \cup {item.key}]
                            ELSE errored
              /\ attempted' = attempted \cup {item.key}
              /\ idx' = IF r.raised THEN idx ELSE idx + 1
              /\ lpc' = IF r.raised THEN OnCycleError ELSE lpc
              /\ outcome' = IF r.raised THEN "error" ELSE outcome
    /\ UNCHANGED <<spc, seen_keys, disk, new_items, last_new_events, env,
                   reported, saved, added, skipped, replay, warm, side>>

ProcessItem == ProcessStep(FALSE)

\* the same step with the history of failed posts and of raised errors kept
ProcessItemLogged == ProcessStep(TRUE)

\* the for loop is exhausted and the task reaches listener.py:402
EndCycle ==
    /\ TaskCreated
    /\ lpc = "Processing"
    /\ idx > Len(new_items)
    /\ lpc' = "Idle"
    /\ outcome' = "ok"
    /\ UNCHANGED <<spc, seen_keys, disk, new_items, idx, last_new_events,
                   latest, cards, env, reported, rendered, delivered, attempted,
                   saved, added, skipped, replay, failed, warm, errored, side>>

\* listener.py:402: await asyncio.sleep(POLL_SECONDS) returns
Sleep ==
    /\ TaskCreated
    /\ lpc = "Idle"
    /\ lpc' = "Polling"
    /\ UNCHANGED <<spc, seen_keys, disk, new_items, idx, last_new_events,
                   latest, cards, env, hist, side>>

\* The replay scenario: the first two loop cycles that read the feed both
\* get the same window w.
ReplayPoll ==
    /\ TaskCreated
    /\ lpc = "Polling"
    /\ replay.cycles < 2
    /\ \E w \in IF replay.cycles = 0 THEN Windows ELSE {replay.w} :
         \E r \in poll_once(seen_keys, disk, {KeyedActivities(w)}) :
            /\ PollStep(r)
            /\ replay' =
                 IF r.raised THEN replay
                 ELSE [cycles |-> replay.cycles + 1, w |-> w,
                       new |-> replay.new \cup ItemKeys(r.new_items),
                       clean |-> replay.clean /\ outcome # "error"]
    /\ UNCHANGED <<warm, errored>>

Next ==
    \/ LoadSeenState
    \/ InitLeague
    \/ WarmupPoll
    \/ StartLoop
    \/ LoopBegin
    \/ LoopPoll
    \/ ProcessItem
    \/ EndCycle
    \/ Sleep

Spec == Init /\ [][Next]_vars

\* The step that ends `await asyncio.to_thread(poll_once)`: the call returns
\* or raises.  Every LoopPoll step is one, and one is possible exactly when
\* LoopPoll is.
PollEnds == TaskCreated /\ lpc = "Polling" /\ lpc' \in {"Processing", OnCycleError}

\* The event loop keeps running the task: a started cycle is carried on, the
\* thread running poll_once ends, asyncio.sleep returns.
FairSpec ==
    /\ Spec
    /\ WF_vars(LoopBegin)
    /\ WF_lpc(PollEnds)
    /\ WF_vars(ProcessItem)
    /\ WF_vars(EndCycle)
    /\ WF_vars(Sleep)

ReplayNext ==
    \/ LoadSeenState
    \/ InitLeague
    \/ WarmupPoll
    \/ StartLoop
    \/ LoopBegin
    \/ ReplayPoll
    \/ ProcessItem
    \/ EndCycle
    \/ Sleep

ReplaySpec == Init /\ [][ReplayNext]_vars

\* The program with the history of failed posts kept.
DeliveryNext ==
    \/ LoadSeenState
    \/ InitLeague
    \/ WarmupPoll
    \/ StartLoop
    \/ LoopBegin
    \/ LoopPoll
    \/ ProcessItemLogged
    \/ EndCycle
    \/ Sleep

DeliverySpec == Init /\ [][DeliveryNext]_vars

\* The program with the history of the warm-up window kept.
WarmupNext ==
    \/ LoadSeenState
    \/ InitLeague
    \/ WarmupPollLogged
    \/ StartLoop
    \/ LoopBegin
    \/ LoopPollLogged
    \/ ProcessItem
    \/ EndCycle
    \/ Sleep

WarmupSpec == Init /\ [][WarmupNext]_vars

\* The program with the history kept of the transactions whose processing
\* raised.
RetryNext ==
    \/ LoadSeenState
    \/ InitLeague
    \/ WarmupPoll
    \/ StartLoop
    \/ LoopBegin
    \/ LoopPollLogged
    \/ ProcessItemLogged
    \/ EndCycle
    \/ Sleep

RetrySpec == Init /\ [][RetryNext]_vars

(***************************************************************************)
(* The card routes (listener.py:89-101).  A request is GET /cards/<name>;  *)
(* FastAPI tries the routes in the order they were declared.               *)
(***************************************************************************)
PNG == <<".","p","n","g">>
LatestName == <<"l","a","t","e","s","t">> \o PNG

EndsWith(s, suffix) ==
    Len(s) >= Len(suffix) /\ SubSeq(s, Len(s) - Len(suffix) + 1, Len(s)) = suffix

\* the routes in declaration order: "/cards/{card_id}.png", then
\* "/cards/latest.png"
Routes == <<"card_by_id", "latest_card">>

\* whether a route's path matches /cards/<name>; {card_id} takes one or
\* more characters
Matches(route, name) ==
    IF route = "card_by_id" THEN EndsWith(name, PNG) /\ Len(name) > Len(PNG)
    ELSE name = LatestName

\* card_by_id, listener.py:90-94
card_by_id(card_id, files) ==
    IF card_id \notin DOMAIN files
    THEN [route |-> "card_by_id", status |-> 404, file |-> Absent]
    ELSE [route |-> "card_by_id", status |-> 200, file |-> files[card_id]]

\* latest_card, listener.py:98-101
latest_card(lat) ==
    IF ~lat.exists
    THEN [route |-> "latest_card", status |-> 404, file |-> Absent]
    ELSE [route |-> "latest_card", status |-> 200, file |-> lat]

\* the handler of a route run for /cards/<name>
Handle(route, name, files, lat) ==
    IF route = "card_by_id"
    THEN card_by_id(SubSeq(name, 1, Len(name) - Len(PNG)), files)
    ELSE latest_card(lat)

\* the index of the first declared route that matches, 0 if none does
FirstMatch(name) ==
    LET hits == {i \in 1..Len(Routes) : Matches(Routes[i], name)}
    IN  IF hits = {} THEN 0 ELSE CHOOSE i \in hits : \A j \in hits : i <= j

Serve(name, files, lat) ==
    LET i == FirstMatch(name)
    IN  IF i = 0 THEN [route |-> "none", status |-> 404, file |-> Absent]
        ELSE Handle(Routes[i], name, files, lat)

\* every transaction the feed can hold, with its key
AllItems == UNION {Range(c) : c \in Feed}

\* the names requested: the alias, the card of each transaction, a card
\* that was never made, and a name that is no card
RequestNames ==
    {LatestName} \cup {CardId(it.key) \o PNG : it \in AllItems}
        \cup {<<"0">> \o PNG, <<"x">>}

\* a GET /cards/<name> is answered; the server takes requests once
\* on_startup has returned
Request ==
    /\ spc = "done"
    /\ \E name \in RequestNames :
          response' = [name |-> name] @@ Serve(name, cards, latest)
    /\ UNCHANGED <<prog, calc>>

\* The program with requests to its card routes.
ServeNext ==
    \/ LoadSeenState
    \/ InitLeague
    \/ WarmupPoll
    \/ StartLoop
    \/ LoopBegin
    \/ LoopPoll
    \/ ProcessItem
    \/ EndCycle
    \/ Sleep
    \/ Request

\* the ledger file plays no part in the routes: the process starts
\* without one
ServeInit == Init /\ disk = File("missing", <<>>)

ServeSpec == ServeInit /\ [][ServeNext]_vars

(***************************************************************************)
(* Caption layout (add_or_drop.py:108-122).  draw.textlength(text, font)   *)
(* is given as `textlength`, the width it measures for the text at each    *)
(* font size; load_font raises when no .ttf file can be opened.            *)
(***************************************************************************)
MinFontSize == 8

\* the search started one size below start_size
RECURSIVE FitSearchFromBelow(_, _, _)
FitSearchFromBelow(textlength, size, max_width) ==
    IF size - 1 > MinFontSize
    THEN IF textlength[size - 1] <= max_width THEN size - 1
         ELSE FitSearchFromBelow(textlength, size - 1, max_width)
    ELSE MinFontSize

\* the smallest size that fits instead of the first from the top
FitSearchSmallest(textlength, size, max_width) ==
    LET fit == {z \in (MinFontSize + 1)..size : textlength[z] <= max_width}
    IN  IF fit = {} THEN MinFontSize ELSE CHOOSE z \in fit : \A y \in fit : z <= y

\* the search giving its starting size back when nothing fits
FitSearchKeepsStart(textlength, size, max_width) ==
    LET fit == {z \in (MinFontSize + 1)..size : textlength[z] <= max_width}
    IN  IF fit = {} THEN size ELSE CHOOSE z \in fit : \A y \in fit : z >= y

\* the while loop of fit_font_to_width, add_or_drop.py:109-116
RECURSIVE FitSearch(_, _, _)
FitSearch(textlength, size, max_width) ==
    IF size > MinFontSize
    THEN IF textlength[size] <= max_width THEN size
         ELSE FitSearch(textlength, size - 1, max_width)
    ELSE MinFontSize

\* fit_font_to_width: the size of the font it returns
fit_font_to_width(textlength, font_found, start_size, max_width) ==
    IF ~font_found THEN [raised |-> TRUE, size |-> 0]
    ELSE [raised |-> FALSE, size |-> FitSearch(textlength, start_size, max_width)]

\* Coordinates and widths are floats: a number is counted in 1/Scale pixel.
Scale == 4

\* n/d cut down to the integer below it
RoundDown(n, d) == n \div d

\* Python's round(n/d) for d > 0: the nearest integer, a tie going to the
\* even one
PyRound(n, d) ==
    LET q == n \div d
        r == n % d
    IN  IF 2 * r < d THEN q
        ELSE IF 2 * r > d THEN q + 1
        ELSE IF q % 2 = 0 THEN q ELSE q + 1

\* centered_x_for_text, add_or_drop.py:118-122: x = left_x + (region_w -
\* text_w) / 2.0 is (2*left_x + region_w - text_w) / (2*Scale) pixels
centered_x_for_text(text_w, left_x, right_x) ==
    LET region_w == right_x - left_x
    IN  PyRound(2 * left_x + region_w - text_w, 2 * Scale)

(***************************************************************************)
(* The pure functions called on their own: Init draws the arguments, a     *)
(* step applies the function.                                              *)
(***************************************************************************)
Entries == {E_Add, E_Drop, E_AddDst, E_Trade, E_RawAdd, E_Short}

NormalizeCalls ==
    { [fn |-> "normalize_actions", done |-> FALSE, activity |-> [actions |-> q],
       out |-> <<>>] : q \in ListsUpTo(Entries, MaxEntries) }

Sizes == MinFontSize..MaxSize
Widths == 0..MaxWidth

\* a second, wider region goes with each call, for the same text
FitCalls ==
    { [fn |-> "fit_font_to_width", done |-> FALSE, textlength |-> m,
       font_found |-> f, start_size |-> z, max_width |-> w[1], wider |-> w[2],
       out |-> [raised |-> FALSE, size |-> 0],
       out_wider |-> [raised |-> FALSE, size |-> 0]]
      : m \in [Sizes -> Widths], f \in BOOLEAN,
        z \in (MinFontSize - 1)..MaxSize,
        w \in {v \in Widths \X Widths : v[1] <= v[2]} }

CenterCalls ==
    { [fn |-> "centered_x_for_text", done |-> FALSE, text_w |-> t,
       left_x |-> l, right_x |-> r, out |-> 0]
      : t \in 0..(MaxCoord + 2), l \in 0..MaxCoord, r \in 0..MaxCoord }

\* Names as a league holds them: a team's name is free text typed by its
\* owner, so it may contain "|"; so may a player's name.
Bar == <<"|">>
TeamNames == { <<"x">>, <<"x">> \o Bar \o ADDED \o Bar \o <<"y">> }
PlayerNames == { <<"z">>, <<"y">> \o Bar \o ADDED \o Bar \o <<"z">> }

\* the fields of a normalized transaction that make_event_key reads
Identities ==
    [teamName : TeamNames, action : ONLY_ACTIONS, playerName : PlayerNames,
     playerId : {NoInt, SomeInt(7)}]

\* the keys of two transactions, each derived as poll_once derives it
KeyCalls ==
    { [fn |-> "make_event_key", done |-> FALSE, a |-> a, b |-> b,
       key_a |-> <<>>, key_b |-> <<>>] : a \in Identities, b \in Identities }

CalcInit ==
    /\ Start
    /\ disk = File("missing", <<>>)
    /\ latest = Absent
    /\ env = [PUBLIC_BASE_URL |-> FALSE, PUSHCUT_URL |-> FALSE]
    /\ calc \in NormalizeCalls \cup FitCalls \cup CenterCalls \cup KeyCalls
    /\ response = NoResponse

NormalizeCall ==
    /\ calc.fn = "normalize_actions"
    /\ ~calc.done
    /\ calc' = [calc EXCEPT !.done = TRUE, !.out = normalize_actions(calc.activity)]
    /\ UNCHANGED <<prog, response>>

FitCall ==
    /\ calc.fn = "fit_font_to_width"
    /\ ~calc.done
    /\ calc' = [calc EXCEPT
                  !.done = TRUE,
                  !.out = fit_font_to_width(calc.textlength, calc.font_found,
                                            calc.start_size, calc.max_width),
                  !.out_wider = fit_font_to_width(calc.textlength, calc.font_found,
                                                  calc.start_size, calc.wider)]
    /\ UNCHANGED <<prog, response>>

CenterCall ==
    /\ calc.fn = "centered_x_for_text"
    /\ ~calc.done
    /\ calc' = [calc EXCEPT
                  !.done = TRUE,
                  !.out = centered_x_for_text(calc.text_w, calc.left_x, calc.right_x)]
    /\ UNCHANGED <<prog, response>>

\* listener.py:327: key = make_event_key([a]), for each of the two
KeyCall ==
    /\ calc.fn = "make_event_key"
    /\ ~calc.done
    /\ calc' = [calc EXCEPT !.done = TRUE,
                            !.key_a = make_event_key(<<calc.a>>),
                            !.key_b = make_event_key(<<calc.b>>)]
    /\ UNCHANGED <<prog, response>>

CalcNext ==
    \/ NormalizeCall
    \/ FitCall
    \/ CenterCall
    \/ KeyCall

CalcSpec == CalcInit /\ [][CalcNext]_vars

(***************************************************************************)
(* The Compositor called on its own, with the file at OUTPUT_PATH as the   *)
(* process start finds it.                                                 *)
(***************************************************************************)
NoResult == [raised |-> FALSE, cause |-> "none", img |-> NoImage, wrote |-> "nothing"]

ComposeCalls ==
    { [fn |-> "construct_image_adds_or_drops", done |-> FALSE,
       player_name |-> p, player_img_url |-> u, owner_nickname |-> o,
       transaction_type |-> t, before |-> Absent, out |-> NoResult]
      : p \in {None, <<>>, Bucky.name},
        u \in {None, player_headshot_url(Bucky.playerId)},
        o \in {None, owner_id_to_name[<<"o","1">>]},
        t \in {None, ADDED, <<" ","d","r","o","p"," ">>, TRADED} }

ComposeInit ==
    /\ Start
    /\ disk = File("missing", <<>>)
    /\ env = [PUBLIC_BASE_URL |-> FALSE, PUSHCUT_URL |-> FALSE]
    /\ calc \in ComposeCalls
    /\ response = NoResponse

ComposeCall ==
    /\ calc.fn = "construct_image_adds_or_drops"
    /\ ~calc.done
    /\ \E r \in construct_image_adds_or_drops(calc.player_name, calc.player_img_url,
                                               calc.owner_nickname,
                                               calc.transaction_type) :
          /\ latest' = Written(r, latest)
          /\ calc' = [calc EXCEPT !.done = TRUE, !.before = latest, !.out = r]
    /\ UNCHANGED <<spc, lpc, seen_keys, disk, new_items, idx, last_new_events,
                   cards, env, hist, response>>

ComposeSpec == ComposeInit /\ [][ComposeCall]_vars

(***************************************************************************)
(* Properties.                                                             *)
(***************************************************************************)
LoopKeys == ItemKeys(new_items)

\* a loop cycle or the warm-up poll has just ended
CycleEnded == spc = "reset" \/ lpc = "Idle"

\* C1: across all calls of poll_once (warm-up and loop cycles, any windows,
\* a window with the same transaction twice included), no dedup key is put
\* in a returned new_items list more than once.
C1_KeyNewAtMostOnce == \A k \in DOMAIN reported : reported[k] <= 1

\* C1's case: a key that was reported new once and that a later occurrence
\* met in seen_keys, where it was skipped.
C1_Witness == \E k \in skipped : Count(reported, k) = 1

\* a Card exists for key k: the Compositor was called for it, or a file is
\* at its content-addressed path
HasCard(k) == Count(rendered, k) >= 1 \/ CardId(k) \in DOMAIN cards

\* C2: when two loop cycles in a row read the same window, each transaction
\* of it gets exactly one Card and exactly one delivery attempt in total.
\* Stated for the runs most favourable to it: the transactions the two
\* cycles found new, delivery configured, both cycles ended without error.
C2_ReplayExactlyOnce ==
    (replay.cycles = 2 /\ lpc = "Idle" /\ outcome = "ok" /\ replay.clean
        /\ Posts(env))
    => \A k \in replay.new :
          /\ HasCard(k)
          /\ Count(rendered, k) <= 1
          /\ Count(delivered, k) = 1

\* C3: every transaction whose key the ledger records as newly seen gets a
\* delivery payload submitted exactly once: at the end of a cycle no key
\* the cycle recorded is without its delivery attempt.  Stated for the
\* keys a loop cycle recorded, with delivery configured.
C3_NewKeysDelivered ==
    (lpc = "Idle" /\ Posts(env)) => \A k \in LoopKeys : Count(delivered, k) = 1

\* C4: for every Add or Drop transaction a loop cycle finds new, the
\* coordinator calls construct_image_adds_or_drops in the same cycle.
C4_NewTransactionRendered ==
    (lpc = "Idle" /\ outcome = "ok") => \A k \in LoopKeys : Count(rendered, k) >= 1

\* C5: when the body of one new transaction raises, every other new
\* transaction of the cycle is still processed in that cycle: at the end of
\* a cycle the body has run for each of its new transactions.
C5_ErrorsIsolatedPerTransaction == lpc = "Idle" => LoopKeys \subseteq attempted

\* C6: whatever a cycle of the loop raises is caught and the loop goes on:
\* a cycle that ended in an error is followed by the start of another
\* cycle, and the task, once started, has no terminal state: it always
\* finishes a cycle again and always starts one again.
C6_LoopSurvivesErrors ==
    /\ (lpc = "Idle" /\ outcome = "error") ~> (lpc = "Polling")
    /\ (lpc # "none") ~> (lpc = "Idle")
    /\ (lpc # "none") ~> (lpc = "Polling")

\* C6's case: a cycle has just been abandoned on an error.
C6_Witness == lpc = "Idle" /\ outcome = "error"

\* C7: cycles never overlap: the loop task runs no cycle while on_startup
\* has not finished its warm-up poll, so at most one execution reads and
\* writes seen_keys at a time.
C7_NoOverlappingCycles ==
    /\ ~(spc = "warmup" /\ lpc \in {"Polling", "Processing"})
    /\ (lpc # "none" => spc = "done")

\* C7's case: a loop cycle is in the middle of its transactions, after a
\* warm-up poll that recorded keys of its own.
C7_Witness ==
    /\ lpc = "Processing"
    /\ idx <= Len(new_items)
    /\ DOMAIN reported \ LoopKeys # {}

\* C8: the in-memory ledger is append-only: no step of the startup, of
\* poll_once or of the loop removes a key from seen_keys, failed cycles
\* included.
C8_SeenKeysOnlyGrow == [][seen_keys \subseteq seen_keys']_vars

\* C8's case: a cycle that recorded keys was abandoned on an error, and the
\* ledger held other keys before it.
C8_Witness ==
    /\ lpc = "Idle"
    /\ outcome = "error"
    /\ LoopKeys # {}
    /\ LoopKeys \subseteq seen_keys
    /\ seen_keys # LoopKeys

\* the keys a load of the ledger file would give
StoredKeys(d) == load_seen_state(d, {}).seen

C10_LoadFailsOpen ==
    [][(spc = "load" /\ disk.kind # "list") => (spc' = "init" /\ seen_keys' = {})]_vars

\* C10's case: the startup went on past a ledger file that is not JSON.
C10_Witness == spc = "warmup" /\ disk.kind = "badjson" /\ seen_keys = {}

\* C11: a failed ledger save is retried on the next cycle: when the last
\* poll_once could not write the ledger and the next loop cycle's poll_once
\* returns, that call has attempted the write again, new keys or not.
C11_FailedSaveRetried ==
    [][(saved = "failed" /\ lpc = "Polling" /\ lpc' = "Processing")
         => saved' # "none"]_vars

\* C12: a failed post to Pushcut does not roll back the ledger and is not
\* retried: the key stays in seen_keys, exactly one post was ever made for
\* it, and the step in which the post failed goes on to the next
\* transaction of the cycle.
C12_DeliveryFailureKept ==
    /\ [](\A k \in failed : k \in seen_keys /\ Count(delivered, k) = 1)
    /\ [][\A k \in failed' \ failed :
            /\ lpc' = "Processing"
            /\ idx' = idx + 1
            /\ seen_keys' = seen_keys]_vars

\* C12's case: the post for the first new transaction of a cycle failed,
\* and the cycle went on to post the second and ended without error.
C12_Witness ==
    /\ lpc = "Idle"
    /\ outcome = "ok"
    /\ Len(new_items) >= 2
    /\ new_items[1].key \in failed
    /\ new_items[2].key \notin failed
    /\ Count(delivered, new_items[2].key) = 1

\* the entries of an activity that normalize_actions keeps
Kept(entries) ==
    {i \in 1..Len(entries) :
        Len(entries[i]) >= 3 /\ normalize_action(entries[i][2]) \in {ADDED, DROPPED}}

\* the j-th smallest element of a set of numbers
Nth(S, j) == CHOOSE i \in S : Cardinality({k \in S : k < i}) = j - 1

FitDone == calc.fn = "fit_font_to_width" /\ calc.done /\ calc.font_found

\* the sizes above the minimum, up to start_size, at which the text fits
\* a region of width w
Fitting(w) ==
    {z \in (MinFontSize + 1)..calc.start_size : calc.textlength[z] <= w}

\* the largest element of a non-empty set of numbers
Largest(S) == CHOOSE z \in S : \A y \in S : y <= z

\* C14: fit_font_to_width returns the font of the largest size s with
\* 8 < s <= start_size at which the text is no wider than max_width, and
\* of size 8 when there is no such size; it does not raise on overflow.
C14_FitIsFirstFromTop ==
    FitDone
    => /\ ~calc.out.raised
       /\ calc.out.size = IF Fitting(calc.max_width) = {} THEN MinFontSize
                          ELSE Largest(Fitting(calc.max_width))

\* C14's case: the text does not fit at start_size, fits at a smaller size
\* above 8, and that size was returned.
C14_Witness ==
    /\ FitDone
    /\ calc.start_size = MaxSize
    /\ calc.textlength[MaxSize] > calc.max_width
    /\ calc.out.size > MinFontSize
    /\ calc.out.size < MaxSize

\* C15: for the same text and start_size, the size chosen for a wider
\* region is never smaller than the size chosen for a narrower one.
C15_FitMonotonicInWidth == FitDone => calc.out_wider.size >= calc.out.size

\* C15's case: the region really is wider and the size chosen for it is
\* larger, with a text whose width is not monotonic in the size.
C15_Witness ==
    /\ FitDone
    /\ calc.max_width < calc.wider
    /\ calc.out.size < calc.out_wider.size
    /\ \E z \in MinFontSize..(MaxSize - 1) : calc.textlength[z] > calc.textlength[z + 1]

\* a caption wider than its region at a starting size above the minimum
\* (the configured sizes, 24 and 35, are above it)
TooWideAtStart ==
    /\ FitDone
    /\ calc.start_size > MinFontSize
    /\ calc.textlength[calc.start_size] > calc.max_width

\* C16 as stated: for a caption wider than its region at the starting size,
\* the chosen size is strictly below the starting size and the text at the
\* chosen size is no wider than the region.
C16_TooWideShrinksToFit ==
    TooWideAtStart
    => /\ calc.out.size < calc.start_size
       /\ calc.textlength[calc.out.size] <= calc.max_width

\* C16 amended: the chosen size is strictly below the starting size, and
\* the text at the chosen size is no wider than the region unless no size
\* above 8 fits: then the chosen size is 8, whatever the width there.
C16_TooWideShrinksOrOverflows ==
    TooWideAtStart
    => /\ calc.out.size < calc.start_size
       /\ \/ calc.textlength[calc.out.size] <= calc.max_width
          \/ calc.out.size = MinFontSize /\ Fitting(calc.max_width) = {}

\* C16's case: a caption too wide at the starting size was shrunk to a
\* size above 8 at which it fits.
C16_Witness ==
    /\ TooWideAtStart
    /\ calc.out.size > MinFontSize
    /\ calc.textlength[calc.out.size] <= calc.max_width

\* x of centered_x_for_text, counted in 1/(2*Scale) pixel
CenterX == 2 * calc.left_x + (calc.right_x - calc.left_x) - calc.text_w

CenterDone == calc.fn = "centered_x_for_text" /\ calc.done

\* C17 as stated: centered_x_for_text returns
\* left_x + (usable width - text width) / 2 floored: the greatest integer
\* not above it.
C17_CenterIsFloored == CenterDone => calc.out = RoundDown(CenterX, 2 * Scale)

Abs(n) == IF n < 0 THEN -n ELSE n

\* C17 amended: centered_x_for_text returns the integer nearest to
\* left_x + (usable width - text width) / 2, and the even one of the two
\* when that value lies halfway between two integers.
C17_CenterIsRounded ==
    CenterDone
    => LET off == Abs(2 * Scale * calc.out - CenterX)
       IN  /\ off <= Scale
           /\ off = Scale => calc.out % 2 = 0

\* C17's case: the text is wider than the region, the value is negative
\* and its fraction is above one half: it was rounded up.
C17_Witness ==
    /\ CenterDone
    /\ CenterX < 0
    /\ 2 * (CenterX % (2 * Scale)) > 2 * Scale
    /\ calc.out = RoundDown(CenterX, 2 * Scale) + 1

\* the item the feed gives for a key
ItemOf(k) == CHOOSE it \in AllItems : it.key = k

\* the caption verb of a card for a transaction of this kind
VerbOf(action) ==
    IF action = ADDED THEN <<" ","A","D","D","S">> ELSE <<" ","D","R","O","P","S">>

\* C18: whenever a payload carrying a card URL was submitted, the card file
\* its URL names exists, is completely written and holds the image of the
\* payload's own transaction.
C18_CardReadyWhenDelivered ==
    \A k \in DOMAIN delivered :
       LET card_id == input_obj(ItemOf(k)).imageUrl
           transaction == ItemOf(k).actions[1]
       IN  /\ card_id \in DOMAIN cards
           /\ cards[card_id].exists
           /\ ~cards[card_id].torn
           /\ cards[card_id].img.player = transaction.playerName
           /\ cards[card_id].img.verb = VerbOf(transaction.action)

\* the kind a payload's type field names
KindOfType(type) ==
    IF type = <<"A","D","D">> THEN ADDED
    ELSE IF type = <<"D","R","O","P">> THEN DROPPED
    ELSE type

\* C19: the payload submitted for a transaction names the transaction's own
\* kind: its type field is the kind of the transaction it carries, and its
\* text says "added" for an add and "dropped" for a drop.
C19_PayloadKindIsOwnKind ==
    \A k \in DOMAIN delivered :
       LET payload == input_obj(ItemOf(k))
           action == payload.rawActions[1].action
       IN  /\ KindOfType(payload.type) = action
           /\ Contains(Upper(payload.text), action)

\* C20: a request for /cards/latest.png is answered by latest_card, with
\* the file at the latest path whenever it exists; a request for a card id
\* is answered with that card when its file exists and with 404 when not.
C20_BothReadPathsServed ==
    [][response' # response
        => /\ response'.name = LatestName
                => /\ response'.route = "latest_card"
                   /\ latest.exists
                        => response'.status = 200 /\ response'.file = latest
           /\ (response'.name # LatestName /\ EndsWith(response'.name, PNG))
                => LET card_id == SubSeq(response'.name, 1,
                                         Len(response'.name) - Len(PNG))
                   IN  IF card_id \in DOMAIN cards
                       THEN response'.status = 200 /\ response'.file = cards[card_id]
                       ELSE response'.status = 404]_vars

\* the startup has not yet created the loop task
StartingUp == spc \in {"load", "init", "warmup", "reset"}

\* C21: the warm-up poll of on_startup puts the key of every transaction of
\* its window in seen_keys and neither renders nor delivers anything (no
\* Compositor call, no post, no card file written before the loop task
\* exists), and no later cycle ever processes, renders or delivers a
\* transaction whose key was in the warm-up window.
C21_WarmupKeysNeverNotified ==
    /\ StartingUp =>
          rendered = NoCounts /\ delivered = NoCounts /\ cards = <<>>
    /\ \A k \in warm.keys :
          /\ k \in seen_keys
          /\ k \notin LoopKeys
          /\ Count(rendered, k) = 0
          /\ Count(delivered, k) = 0

\* C21's case: a loop cycle has met a transaction of the warm-up window
\* again and left it alone, and a cycle that ended without an error has
\* delivered a transaction that was not in that window.
C21_Witness ==
    /\ lpc = "Idle"
    /\ outcome = "ok"
    /\ \E k \in warm.again : Count(reported, k) = 1 /\ Count(delivered, k) = 0
    /\ \E k \in LoopKeys : Count(delivered, k) = 1

\* C22: a transaction is marked seen before it is processed: every
\* transaction the loop holds for rendering and delivery already has its key
\* in seen_keys, and the poll that found it has called save_seen_state.  An
\* error raised while it is processed does not take the key out: the key
\* stays in seen_keys, the transaction was reported new exactly once, it is
\* in no later cycle's new_items (new_items holds it only until the next
\* poll, with the loop out of its for statement) and it is never delivered.
C22_SeenBeforeProcessed ==
    /\ LoopKeys \subseteq seen_keys
    /\ new_items # <<>> => saved # "none"
    /\ \A k \in errored.keys :
          /\ k \in seen_keys
          /\ Count(reported, k) = 1
          /\ Count(delivered, k) = 0
          /\ k \in LoopKeys => lpc # "Processing" /\ outcome = "error"

\* C22's case: the processing of a transaction raised, a later cycle met the
\* transaction again and skipped it, and that cycle ended without an error.
C22_Witness ==
    /\ lpc = "Idle"
    /\ outcome = "ok"
    /\ \E k \in errored.again : k \notin LoopKeys /\ Count(delivered, k) = 0

\* C23: make_event_key is injective on (teamName, action, playerName,
\* playerId), names that contain "|" included: two transactions get the same
\* key exactly when they are equal in all four fields.
C23_KeyInjective ==
    calc.fn = "make_event_key" /\ calc.done =>
        (calc.key_a = calc.key_b <=> calc.a = calc.b)

\* a call of the Compositor that ended by raising
ComposeRaised ==
    calc.fn = "construct_image_adds_or_drops" /\ calc.done /\ calc.out.raised

\* C24: whenever construct_image_adds_or_drops raises because an argument
\* is missing, the kind is unknown, or the template, the player's image, the
\* owner's image or a font fails to load, the file at OUTPUT_PATH is exactly
\* what it was before the call: the file is written by base.save only,
\* which comes after all of these.  (A raise of base.save itself, or of the
\* print after it, is none of these causes.)
C24_FailedRenderKeepsLatest ==
    /\ ComposeRaised /\ calc.out.cause \in {"arguments", "kind"} \cup LoadFailures
          => latest = calc.before
    /\ calc.fn = "construct_image_adds_or_drops" /\ calc.done /\ latest # calc.before
          => calc.out.cause \in {"save", "print", "none"}

\* C24's case: with an earlier card at OUTPUT_PATH, a call with valid
\* arguments raised because the owner's image did not load, and the earlier
\* card is still there.
C24_Witness ==
    /\ ComposeRaised
    /\ calc.out.cause = "owner_image"
    /\ calc.before = StaleCard
    /\ latest = StaleCard

====
